---- MODULE Spec2Model ----
(***************************************************************************)
(* Price lookup of Meat_A_Eye-backend: the KAMIS feed pipeline of          *)
(* meat_backend/apis.py (fetch_kamis_price, _fetch_kamis_price_single,     *)
(* _parse_response) and the DB cache in front of it                        *)
(* (meat_backend/services/price_service.py, table market_prices).          *)
(*                                                                         *)
(* Conventions.                                                            *)
(*  - Calendar dates are day numbers (integers); YearOf gives the year.    *)
(*    A date string "YYYY-MM-DD" is the record [iso |-> d]; strptime reads  *)
(*    the day number back from it.                                         *)
(*  - The Korean literals of the source are written romanised:             *)
(*      "jeonguk" (all regions), "seoul", "online", "pyeonggyun" (average),*)
(*      "pyeongnyeon" (average year), "auction", "jeonche" (all grades).   *)
(*  - A Python exception is a result record tagged "http" (HTTPException   *)
(*    with its status code) or "crash" (any other Exception).              *)
(***************************************************************************)
EXTENDS Integers, Sequences, FiniteSets, TLC

\* ------------------------------------------------------------------------
\* State
\* ------------------------------------------------------------------------

\* the HTTP requests (DB sessions) that run concurrently
Sessions == {"s1", "s2"}

VARIABLES
    today,          \* date.today(): the calendar day
    market_prices,  \* the rows of table market_prices, uncommitted ones included
    sess,           \* per session: the position in fetch_current_price and its locals
    nreq,           \* the number of calls made so far
    agg,            \* one all-grades call of fetch_kamis_price: its fan-out and join
    pipe            \* one run of a feed pipeline on one response: inputs and outcome

vars == <<today, market_prices, sess, nreq, agg, pipe>>

\* ------------------------------------------------------------------------
\* Bounds of the model
\* ------------------------------------------------------------------------

\* the last calendar day the model reaches (the first day is day 1)
MaxDay == 9

\* the number of GetCurrentPrice calls of one behaviour
MaxRequests == 2

\* ------------------------------------------------------------------------
\* Program constants and tables
\* ------------------------------------------------------------------------

\* PriceService.__init__: self.cache_days = 7
cache_days == 7

NoneVal == "~None"

\* the parts the model asks prices for, and one part without price data
PartNames == {"Beef_Rib", "Pork_Belly", "Import_Beef_Rib_AU", "Beef_Sirloin"}

PRICE_AVAILABLE_PARTS == {"Beef_Rib", "Pork_Belly", "Import_Beef_Rib_AU"}

\* part_name.startswith(prefix), on the parts of the model
StartsWith(part_name, prefix) ==
    CASE prefix = "Beef_" -> part_name \in {"Beef_Rib", "Beef_Sirloin"}
      [] prefix = "Import_Beef_" -> part_name \in {"Import_Beef_Rib_AU"}
      [] prefix = "Pork_" -> part_name \in {"Pork_Belly"}
      [] prefix = "Import_Pork_" -> FALSE
      [] OTHER -> FALSE

\* PRICE_KAMIS_CODES[part]["grade_codes"], after the setdefault of line 518
grade_code_map(part_name) ==
    IF StartsWith(part_name, "Beef_")
    THEN [g \in {"00", "01", "02", "03"} |->
            CASE g = "00" -> "jeonche" [] g = "01" -> "1++" [] g = "02" -> "1+" [] OTHER -> "1"]
    ELSE IF StartsWith(part_name, "Import_Beef_")
    THEN [g \in {"82"} |-> "AU"]
    ELSE [g \in {"00"} |-> "jeonche"]

\* settings.kamis_api_key is configured (fetch_kamis_price answers 503 otherwise)
kamis_api_key_set == TRUE

YearOf(d) == 2025 + (d \div 365)

\* ------------------------------------------------------------------------
\* Dates as strings
\* ------------------------------------------------------------------------

\* date.strftime("%Y-%m-%d") and str(date)
strftime(d) == [iso |-> d]

\* datetime.strptime(s, "%Y-%m-%d").date(): the day, or "ValueError"
strptime(s) ==
    IF "iso" \in DOMAIN s THEN [ok |-> TRUE, day |-> s.iso] ELSE [ok |-> FALSE, day |-> 0]

\* ------------------------------------------------------------------------
\* The feed: one HTTP response of the upstream service
\* ------------------------------------------------------------------------

\* a row of the feed; absent string fields are NoneVal, yyyy is the year of
\* the companion year field, 0 when the row has none
Item(countyname, marketname, price, dpr1, regday, yyyy) ==
    [countyname |-> countyname, marketname |-> marketname,
     price |-> price, dpr1 |-> dpr1, regday |-> regday, yyyy |-> yyyy]

\* the regday field of a row: its shape and the day it writes
RegDay(fmt, d) == [fmt |-> fmt, day |-> d]
NoRegDay == [fmt |-> "none", day |-> 0]

\* net: "ok" | "timeout" | "http_error"; body: "blank" | "html" | "text" | "badxml" | "xml"
Response(net, body, error_code, items) ==
    [net |-> net, body |-> body, error_code |-> error_code, items |-> items]

\* _parse_response: "E502" (HTTPException 502) or "dict"
parse_response(body) ==
    CASE body = "blank" -> "E502"
      [] body = "html" -> "E502"
      [] body = "badxml" -> "E502"
      [] body = "text" -> "E502"
      [] OTHER -> "dict"

\* Python truthiness of a field value
Truthy(v) == v \notin {NoneVal, ""}

\* int(float(str(raw).replace(",", ""))) on the price strings of the model
int_float(raw) ==
    CASE raw = "100" -> [t |-> "int", v |-> 100]
      [] raw = "130" -> [t |-> "int", v |-> 130]
      [] raw = "200" -> [t |-> "int", v |-> 200]
      [] raw = "1,000" -> [t |-> "int", v |-> 1000]
      [] raw = "99.9" -> [t |-> "int", v |-> 99]
      [] raw = "0" -> [t |-> "int", v |-> 0]
      [] raw = "-5" -> [t |-> "int", v |-> 0 - 5]
      [] raw = "inf" -> [t |-> "OverflowError", v |-> 0]
      [] OTHER -> [t |-> "ValueError", v |-> 0]

PriceFields == <<"price", "dpr1", "dpr0", "avgPrc", "value", "priceValue">>

ItemGet(item, f) == IF f \in DOMAIN item THEN item[f] ELSE NoneVal

\* a or b or c ...: the first truthy value, else the last one
RECURSIVE OrChain(_, _, _)
OrChain(item, fields, i) ==
    IF i = Len(fields) THEN ItemGet(item, fields[i])
    ELSE IF Truthy(ItemGet(item, fields[i])) THEN ItemGet(item, fields[i])
    ELSE OrChain(item, fields, i + 1)

\* lines 866-876 and 1182-1191: the price string of a row, converted
ItemPrice(item) == int_float(OrChain(item, PriceFields, 1))

IsAverage(countyname) == countyname \in {"pyeonggyun", "pyeongnyeon", ""}

\* sub in s, on the market names of the model
Contains(s, sub) ==
    CASE s = "online_mall_A" -> sub = "online"
      [] s = "g_auction" -> sub = "auction"
      [] s = "online" -> sub = "online"
      [] s = "auction" -> sub = "auction"
      [] OTHER -> FALSE

RegionKeeps_NoAverageFallback(region, item) ==
    IF region = "jeonguk" THEN IsAverage(item.countyname)
    ELSE IF region = "online"
    THEN Contains(item.marketname, "online") \/ Contains(item.marketname, "auction")
    ELSE item.countyname = region

\* the region filter of the selection loop
RegionKeeps(region, item) ==
    IF region = "jeonguk" THEN IsAverage(item.countyname)
    ELSE IF region = "online"
    THEN Contains(item.marketname, "online") \/ Contains(item.marketname, "auction")
    ELSE IsAverage(item.countyname) \/ item.countyname = region

ItemPriority(item) == IF IsAverage(item.countyname) THEN 2 ELSE 1

\* the selection loop: the index of the first kept item of the least priority,
\* 0 when no item is kept (best_item is None)
RECURSIVE SelectBest(_, _, _, _, _)
SelectBest(items, region, i, best_item, best_priority) ==
    IF i > Len(items) THEN best_item
    ELSE IF RegionKeeps(region, items[i]) /\ ItemPriority(items[i]) < best_priority
    THEN SelectBest(items, region, i + 1, i, ItemPriority(items[i]))
    ELSE SelectBest(items, region, i + 1, best_item, best_priority)

\* the regday string built from the row: a date string, or a [bad |-> TRUE] marker
ParseRegday(rd, target_day) ==
    CASE rd.fmt = "MM/DD" ->
            \* the month and day of rd.day in the year of target_day
            strftime(rd.day + 365 * (YearOf(target_day) - YearOf(rd.day)))
      [] rd.fmt = "YYYY/MM/DD" -> strftime(rd.day)
      [] rd.fmt = "YYYYMMDD" -> strftime(rd.day)
      [] rd.fmt = "YYYY-MM-DD" -> strftime(rd.day)
      [] OTHER -> [bad |-> TRUE]

\* no date string
NoDate == [none |-> TRUE]

SingleNone == [tag |-> "none", status |-> 0, price |-> 0, date |-> NoDate]
SingleHttp(status) == [tag |-> "http", status |-> status, price |-> 0, date |-> NoDate]
SingleCrash == [tag |-> "crash", status |-> 0, price |-> 0, date |-> NoDate]
SingleOk(price, date) == [tag |-> "ok", status |-> 0, price |-> price, date |-> date]

\* a faulty variant of ExtractPrice: the row's own date is kept (lines 916-921 dropped)
ExtractPrice_KeepRegday(best_item, target_day) ==
    LET pv == int_float(OrChain(best_item, PriceFields, 1))
        regday == ParseRegday(best_item.regday, target_day)
    IN  IF pv.t = "OverflowError" THEN SingleCrash
        ELSE IF pv.t = "ValueError" \/ pv.v <= 0 \/ best_item.regday.fmt = "none" THEN SingleNone
        ELSE IF ~strptime(regday).ok THEN SingleOk(pv.v, strftime(target_day))
        ELSE SingleOk(pv.v, regday)

\* lines 865-930: price and date of the chosen row
ExtractPrice(best_item, target_day) ==
    LET raw_price == OrChain(best_item, PriceFields, 1)
        pv == int_float(raw_price)
        rd == best_item.regday
        regday == ParseRegday(rd, target_day)
        parsed == strptime(regday)
    IN  IF pv.t = "OverflowError" THEN SingleCrash
        ELSE IF pv.t = "ValueError" THEN SingleNone
        ELSE IF pv.v <= 0 THEN SingleNone
        ELSE IF rd.fmt = "none" THEN SingleNone
        ELSE IF ~parsed.ok THEN SingleOk(pv.v, strftime(target_day))
        ELSE IF parsed.day # target_day THEN SingleOk(pv.v, strftime(target_day))
        ELSE SingleOk(pv.v, regday)

\* _fetch_kamis_price_single: one request to the feed and its reading
fetch_kamis_price_single(part_name, region, grade_code, target_day, resp) ==
    IF resp.net # "ok" THEN SingleHttp(503)
    ELSE IF parse_response(resp.body) = "E502" THEN SingleHttp(502)
    ELSE LET items == IF resp.error_code \in {"0", "000"} THEN resp.items ELSE <<>>
             best_item == SelectBest(items, region, 1, 0, 999)
         IN  IF items = <<>> THEN SingleNone
             ELSE IF best_item = 0 THEN SingleNone
             ELSE ExtractPrice(items[best_item], target_day)

\* ------------------------------------------------------------------------
\* fetch_kamis_price: one grade, or the mean over the grades 01, 02, 03
\* ------------------------------------------------------------------------

grade_codes_to_fetch == <<"01", "02", "03">>

fetch_one_grade_NoCatch(part_name, region, gc, target_day, resp) ==
    fetch_kamis_price_single(part_name, region, gc, target_day, resp)

\* _fetch_one_grade: any exception of the sub-pipeline becomes None
fetch_one_grade(part_name, region, gc, target_day, resp) ==
    LET r == fetch_kamis_price_single(part_name, region, gc, target_day, resp)
    IN  IF r.tag = "ok" THEN r ELSE SingleNone

\* lines 554-557: asyncio.gather(return_exceptions=False) re-raises an
\* exception a sub-pipeline let escape (the first one, in grade order)
RECURSIVE gather_raised(_, _)
gather_raised(results, i) ==
    IF i > Len(grade_codes_to_fetch) THEN SingleNone
    ELSE IF results[grade_codes_to_fetch[i]].tag \in {"http", "crash"}
    THEN results[grade_codes_to_fetch[i]]
    ELSE gather_raised(results, i + 1)

GradePrice(grade, price, priceDate) ==
    [grade |-> grade, price |-> price, priceDate |-> priceDate]

\* lines 559-570: the breakdown, in the order of grade_codes_to_fetch
RECURSIVE BuildGradePrices(_, _, _)
BuildGradePrices(part_name, results, i) ==
    IF i > Len(grade_codes_to_fetch) THEN <<>>
    ELSE LET gc == grade_codes_to_fetch[i]
             rest == BuildGradePrices(part_name, results, i + 1)
         IN  IF results[gc].tag = "ok"
             THEN <<GradePrice(grade_code_map(part_name)[gc], results[gc].price, results[gc].date)>>
                    \o rest
             ELSE rest

RECURSIVE SumPrices(_, _)
SumPrices(grade_prices, i) ==
    IF i > Len(grade_prices) THEN 0
    ELSE grade_prices[i].price + SumPrices(grade_prices, i + 1)

ApiOk(currentPrice, price_date, gradePrices, selectedGrade) ==
    [tag |-> "ok", status |-> 0, currentPrice |-> currentPrice, price_date |-> price_date,
     gradePrices |-> gradePrices, selectedGrade |-> selectedGrade]
ApiHttp(status) ==
    [tag |-> "http", status |-> status, currentPrice |-> 0, price_date |-> NoDate,
     gradePrices |-> <<>>, selectedGrade |-> ""]
ApiCrash ==
    [tag |-> "crash", status |-> 0, currentPrice |-> 0, price_date |-> NoDate,
     gradePrices |-> <<>>, selectedGrade |-> ""]

avg_price_RoundUp(grade_prices) ==
    (SumPrices(grade_prices, 1) + Len(grade_prices) - 1) \div Len(grade_prices)

\* int(sum / len) of positive integers
avg_price(grade_prices) == SumPrices(grade_prices, 1) \div Len(grade_prices)

\* a faulty variant of aggregate_grades: the breakdown is built in the order the
\* sub-pipelines completed (asyncio.as_completed), not in the order of gather
aggregate_grades_AsCompleted(part_name, results) ==
    LET done == SelectSeq(agg.order, LAMBDA gc : results[gc].tag = "ok")
        grade_prices == [i \in 1..Len(done) |->
                            GradePrice(grade_code_map(part_name)[done[i]],
                                       results[done[i]].price, results[done[i]].date)]
        raised == gather_raised(results, 1)
    IN  IF raised.tag = "http" THEN ApiHttp(raised.status)
        ELSE IF raised.tag = "crash" THEN ApiCrash
        ELSE IF Len(grade_prices) = 0 THEN ApiHttp(404)
        ELSE ApiOk(avg_price(grade_prices), grade_prices[1].priceDate, grade_prices, "jeonche")

\* lines 559-592: the join of the three sub-pipelines
aggregate_grades(part_name, results) ==
    LET grade_prices == BuildGradePrices(part_name, results, 1)
        raised == gather_raised(results, 1)
    IN  IF raised.tag = "http" THEN ApiHttp(raised.status)
        ELSE IF raised.tag = "crash" THEN ApiCrash
        ELSE IF grade_prices = <<>> THEN ApiHttp(404)
        ELSE ApiOk(avg_price(grade_prices), grade_prices[1].priceDate, grade_prices, "jeonche")

\* lines 643-653
grade_name_of(part_name, grade_code) ==
    IF StartsWith(part_name, "Import_Beef_")
    THEN (IF part_name \in {"Import_Beef_Rib_AU"} THEN "AU" ELSE "jeonche")
    ELSE IF grade_code = "00" THEN "jeonche"
    ELSE IF grade_code \in DOMAIN grade_code_map(part_name)
    THEN grade_code_map(part_name)[grade_code]
    ELSE "ilban"

\* the grade codes whose feed response one call of fetch_kamis_price reads
FetchedGrades(part_name, grade_code) ==
    IF grade_code = "00" /\ StartsWith(part_name, "Beef_")
    THEN {"01", "02", "03"} ELSE {grade_code}

\* a faulty variant of fetch_kamis_price: target_day is today, not yesterday
\* (line 510 dropped)
fetch_kamis_price_TargetToday(part_name, region, grade_code, day, resps) ==
    LET target_day == day
    IN  IF ~kamis_api_key_set THEN ApiHttp(503)
        ELSE IF part_name \notin PRICE_AVAILABLE_PARTS THEN ApiHttp(404)
        ELSE IF grade_code = "00" /\ StartsWith(part_name, "Beef_")
        THEN aggregate_grades(part_name,
                [gc \in {"01", "02", "03"} |->
                    fetch_one_grade(part_name, region, gc, target_day, resps[gc])])
        ELSE LET price_data ==
                    fetch_kamis_price_single(part_name, region, grade_code, target_day,
                                             resps[grade_code])
                 grade_name == grade_name_of(part_name, grade_code)
             IN  CASE price_data.tag = "http" -> ApiHttp(price_data.status)
                   [] price_data.tag = "crash" -> ApiCrash
                   [] price_data.tag = "none" -> ApiHttp(404)
                   [] OTHER ->
                        ApiOk(price_data.price, price_data.date,
                              <<GradePrice(grade_name, price_data.price, price_data.date)>>,
                              grade_name)

\* fetch_kamis_price; resps maps each fetched grade code to the feed's response
fetch_kamis_price(part_name, region, grade_code, day, resps) ==
    LET target_day == day - 1
    IN  IF ~kamis_api_key_set THEN ApiHttp(503)
        ELSE IF part_name \notin PRICE_AVAILABLE_PARTS THEN ApiHttp(404)
        ELSE IF grade_code = "00" /\ StartsWith(part_name, "Beef_")
        THEN aggregate_grades(part_name,
                [gc \in {"01", "02", "03"} |->
                    fetch_one_grade(part_name, region, gc, target_day, resps[gc])])
        ELSE LET price_data ==
                    fetch_kamis_price_single(part_name, region, grade_code, target_day,
                                             resps[grade_code])
                 grade_name == grade_name_of(part_name, grade_code)
             IN  CASE price_data.tag = "http" -> ApiHttp(price_data.status)
                   [] price_data.tag = "crash" -> ApiCrash
                   [] price_data.tag = "none" -> ApiHttp(404)
                   [] OTHER ->
                        ApiOk(price_data.price, price_data.date,
                              <<GradePrice(grade_name, price_data.price, price_data.date)>>,
                              grade_name)

\* ------------------------------------------------------------------------
\* fetch_kamis_price_period: the daily series of the trailing weeks
\* ------------------------------------------------------------------------

\* lines 979-996: the p_productrankcode of the request
product_rank_code_of(part_name, grade_code) ==
    IF StartsWith(part_name, "Import_Beef_")
    THEN (IF part_name \in {"Import_Beef_Rib_AU"} THEN "82" ELSE grade_code)
    ELSE IF StartsWith(part_name, "Beef_") THEN grade_code
    ELSE IF StartsWith(part_name, "Pork_") THEN ""
    ELSE grade_code

\* lines 1140-1143: str(item.get("productrankcode", "")) and its normal form
rankcode_norm(c) ==
    CASE c = "1" -> "01" [] c = "2" -> "02" [] c = "3" -> "03"
      [] c = "0" -> "00" [] c = "" -> "00" [] OTHER -> c

\* lines 1139-1153: the grade filter of a domestic beef request
RankKeeps(part_name, grade_code, product_rank_code, item) ==
    LET raw == ItemGet(item, "productrankcode")
        c == IF raw = NoneVal THEN "" ELSE raw
    IN  (StartsWith(part_name, "Beef_") /\ grade_code # "00" /\ product_rank_code # "00")
            => ~(c # "" /\ rankcode_norm(c) # "00" /\ rankcode_norm(c) # product_rank_code)

PeriodKeeps_KeepsAverage(region, item) ==
    IF IsAverage(item.countyname) THEN TRUE
    ELSE IF region \notin {"jeonguk", "online"} THEN item.countyname = region
    ELSE IF region = "online"
    THEN Contains(item.marketname, "online") \/ Contains(item.marketname, "auction")
    ELSE TRUE

\* lines 1155-1180: the region filter of the period pipeline
PeriodKeeps(region, item) ==
    IF IsAverage(item.countyname) THEN region = "jeonguk"
    ELSE IF region \notin {"jeonguk", "online"} THEN item.countyname = region
    ELSE IF region = "online"
    THEN Contains(item.marketname, "online") \/ Contains(item.marketname, "auction")
    ELSE TRUE

PeriodRegday_TargetYear(item, day) ==
    CASE item.regday.fmt = "MM/DD" ->
            strftime((item.regday.day % 365) + 365 * (YearOf(day - 1) - 2025))
      [] item.regday.fmt \in {"YYYY/MM/DD", "YYYYMMDD", "YYYY-MM-DD"} ->
            strftime(item.regday.day)
      [] OTHER -> [bad |-> TRUE]

\* lines 1196-1229: the regday string of a row; MM/DD takes the year of the
\* yyyy field and is dropped without one
PeriodRegday(item, day) ==
    CASE item.regday.fmt = "MM/DD" ->
            IF item.yyyy # 0
            THEN strftime((item.regday.day % 365) + 365 * (item.yyyy - 2025))
            ELSE [bad |-> TRUE]
      [] item.regday.fmt \in {"YYYY/MM/DD", "YYYYMMDD", "YYYY-MM-DD"} ->
            strftime(item.regday.day)
      [] OTHER -> [bad |-> TRUE]

\* lines 1248-1254
countyname_priority(countyname) ==
    IF countyname = "jeonguk" THEN 0 ELSE IF IsAverage(countyname) THEN 2 ELSE 1

\* lines 1132-1180: the row passes the grade and the region filter
PeriodFiltered(part_name, region, grade_code, item) ==
    /\ RankKeeps(part_name, grade_code, product_rank_code_of(part_name, grade_code), item)
    /\ PeriodKeeps(region, item)

\* lines 1182-1195: the price of a row, 0 when it does not parse
period_price(item) ==
    LET pv == ItemPrice(item)
    IN  IF pv.t = "int" THEN pv.v ELSE 0

\* lines 1132-1256: the row is appended to by_date
PeriodValid(part_name, region, grade_code, item, day) ==
    LET regday == PeriodRegday(item, day)
        parsed == strptime(regday)
    IN  /\ PeriodFiltered(part_name, region, grade_code, item)
        /\ period_price(item) > 0
        /\ item.regday.fmt # "none"
        /\ parsed.ok
        /\ parsed.day <= day
        /\ YearOf(parsed.day) >= 2000
        /\ YearOf(parsed.day) <= 2100

\* the days of a set, ascending
RECURSIVE SortedDays(_)
SortedDays(ds) ==
    IF ds = {} THEN <<>>
    ELSE LET m == CHOOSE d \in ds : \A e \in ds : d <= e
         IN  <<m>> \o SortedDays(ds \ {m})

\* lines 1124-1125, 1258-1260: last_price after the loop over the rows
RECURSIVE last_price_of(_, _, _, _, _, _)
last_price_of(part_name, region, grade_code, items, day, i) ==
    IF i = 0 THEN 0
    ELSE IF PeriodValid(part_name, region, grade_code, items[i], day)
    THEN period_price(items[i])
    ELSE last_price_of(part_name, region, grade_code, items, day, i - 1)

\* lines 1096-1109: the rows read from the response; when data.item is not
\* taken (error code, or no row) every "item" below document is collected
PeriodItems(resp) == resp.items

DailyPoint(day, price) == [date |-> strftime(day), price |-> price]

PeriodOk(daily) == [tag |-> "ok", status |-> 0, daily |-> daily]
PeriodHttp(status) == [tag |-> "http", status |-> status, daily |-> <<>>]
PeriodCrash == [tag |-> "crash", status |-> 0, daily |-> <<>>]

\* lines 1262-1279: one point per date of by_date, dates ascending; on a date
\* the row of the least countyname_priority and then of the largest price
period_result(part_name, region, grade_code, items, day) ==
    LET valid == {i \in 1..Len(items) :
                    PeriodValid(part_name, region, grade_code, items[i], day)}
        DayOf(i) == strptime(PeriodRegday(items[i], day)).day
        days == SortedDays({DayOf(i) : i \in valid})
        last_price == last_price_of(part_name, region, grade_code, items, day, Len(items))
        Selected(d) ==
            LET on == {i \in valid : DayOf(i) = d}
                b == CHOOSE i \in on : \A j \in on :
                        \/ countyname_priority(items[i].countyname)
                                < countyname_priority(items[j].countyname)
                        \/ /\ countyname_priority(items[i].countyname)
                                = countyname_priority(items[j].countyname)
                           /\ period_price(items[i]) >= period_price(items[j])
                p == period_price(items[b])
            IN  IF p <= 0 /\ last_price # 0 THEN last_price ELSE p
    IN  [k \in 1..Len(days) |-> DailyPoint(days[k], Selected(days[k]))] \o <<>>

\* lines 1066-1287: one request to the feed and the series read from it
fetch_kamis_price_period_single(part_name, region, grade_code, day, resp) ==
    IF resp.net # "ok" THEN PeriodHttp(503)
    ELSE IF parse_response(resp.body) = "E502" THEN PeriodHttp(502)
    ELSE LET items == PeriodItems(resp)
         IN  IF \E i \in 1..Len(items) :
                    /\ PeriodFiltered(part_name, region, grade_code, items[i])
                    /\ ItemPrice(items[i]).t = "OverflowError"
             THEN PeriodCrash
             ELSE PeriodOk(period_result(part_name, region, grade_code, items, day))

\* the sum of the prices of the points of daily at the indices ks
RECURSIVE SumOfPoints(_, _)
SumOfPoints(daily, ks) ==
    IF ks = {} THEN 0
    ELSE LET k == CHOOSE x \in ks : TRUE
         IN  daily[k].price + SumOfPoints(daily, ks \ {k})

\* lines 1006-1021: the per-date mean of the three grades' series; series is
\* <<r01, r02, r03>>
merge_grades(series) ==
    LET points == series[1] \o series[2] \o series[3]
        good == {k \in 1..Len(points) : points[k].price > 0}
        DayOf(k) == strptime(points[k].date).day
        days == SortedDays({DayOf(k) : k \in good})
    IN  [i \in 1..Len(days) |->
            DailyPoint(days[i],
                SumOfPoints(points, {k \in good : DayOf(k) = days[i]})
                    \div Cardinality({k \in good : DayOf(k) = days[i]}))] \o <<>>

\* fetch_kamis_price_period: the outcomes the call can have; resps maps each
\* fetched grade code to the feed's response. weeks only sets the p_startday
\* the feed is asked for. In the all-grades call asyncio.gather propagates
\* the exception of whichever sub-call raises first.
fetch_kamis_price_period(part_name, region, grade_code, weeks, day, resps) ==
    IF ~kamis_api_key_set THEN {PeriodHttp(503)}
    ELSE IF part_name \notin PRICE_AVAILABLE_PARTS THEN {PeriodHttp(404)}
    ELSE IF StartsWith(part_name, "Beef_") /\ grade_code = "00"
    THEN LET r == <<fetch_kamis_price_period_single(part_name, region, "01", day, resps["01"]),
                    fetch_kamis_price_period_single(part_name, region, "02", day, resps["02"]),
                    fetch_kamis_price_period_single(part_name, region, "03", day, resps["03"])>>
             raised == {i \in 1..3 : r[i].tag # "ok"}
         IN  IF raised # {} THEN {r[i] : i \in raised}
             ELSE {PeriodOk(merge_grades(<<r[1].daily, r[2].daily, r[3].daily>>))}
    ELSE {fetch_kamis_price_period_single(part_name, region, grade_code, day,
                                          resps[grade_code])}

\* ------------------------------------------------------------------------
\* routes/dashboard.py: the weekly series of the price-history route
\* ------------------------------------------------------------------------

\* date.weekday(): 0 is Monday; day 0 (2025-01-01) is a Wednesday
weekday(d) == (d + 2) % 7

\* lines 225-226
week_start_of(d) == d - weekday(d)

\* line 242: "MM.DD~MM.DD", the month and day of both ends without the year
week_label(week_start, week_end) == [from |-> week_start % 365, to |-> week_end % 365]

\* lines 269-281: the display names of the parts the route serves
part_display_map ==
    [p \in {"Beef_Rib", "Pork_Belly"} |->
        IF p = "Beef_Rib" THEN "so/galbi" ELSE "dwaeji/samgyeopsal"]

WeeklyPoint(week, partName, price) == [week |-> week, partName |-> partName, price |-> price]

week_mean_RoundUp(daily, ks) ==
    (SumOfPoints(daily, ks) + Cardinality(ks) - 1) \div Cardinality(ks)

\* line 239: int(sum(prices) / len(prices))
week_mean(daily, ks) == SumOfPoints(daily, ks) \div Cardinality(ks)

\* lines 199-214: the points with a date up to yesterday and a positive price
valid_points(daily, day) ==
    {k \in 1..Len(daily) :
        /\ strptime(daily[k].date).ok
        /\ strptime(daily[k].date).day <= day - 1
        /\ daily[k].price > 0}

\* _aggregate_daily_by_week, on the request day
aggregate_daily_by_week(daily, part_name, day) ==
    LET valid == valid_points(daily, day)
        DayOf(k) == strptime(daily[k].date).day
        starts == SortedDays({week_start_of(DayOf(k)) : k \in valid})
        Min(a, b) == IF a <= b THEN a ELSE b
    IN  [i \in 1..Len(starts) |->
            WeeklyPoint(week_label(starts[i], Min(starts[i] + 6, day - 1)),
                        part_name,
                        week_mean(daily, {k \in valid : week_start_of(DayOf(k)) = starts[i]}))]
        \o <<>>

\* A row of market_prices. owner is "committed", or the session whose
\* uncommitted INSERT made it; upd_by is the session holding an uncommitted
\* UPDATE of current_price to upd_price ("-" when none).
Row(id, part_name, region, grade_code, price_date, current_price, owner) ==
    [id |-> id, part_name |-> part_name, region |-> region, grade_code |-> grade_code,
     price_date |-> price_date, current_price |-> current_price,
     owner |-> owner, upd_by |-> "-", upd_price |-> 0]

\* the rows session s reads (READ COMMITTED plus its own writes), with the
\* price s sees
Visible(rows, s) ==
    {[id |-> r.id, part_name |-> r.part_name, region |-> r.region,
      grade_code |-> r.grade_code, price_date |-> r.price_date,
      current_price |-> IF r.upd_by = s THEN r.upd_price ELSE r.current_price] :
        r \in {x \in rows : x.owner \in {"committed", s}}}

\* the rows every new session reads
Committed(rows) == Visible(rows, "committed")

NoCache == [hit |-> FALSE, currentPrice |-> 0, price_date |-> NoDate]
CacheHit(currentPrice, price_date) ==
    [hit |-> TRUE, currentPrice |-> currentPrice, price_date |-> price_date]

\* What fetch_current_price gives its caller: the fields of the returned dict
\* that the cache layer sets or reads (source, currentPrice, price_date), or
\* the HTTPException raised.
NoResult ==
    [kind |-> "-", source |-> "-", currentPrice |-> 0, price_date |-> NoDate, status |-> 0]
ResultOk(source, currentPrice, price_date) ==
    [kind |-> "ok", source |-> source, currentPrice |-> currentPrice,
     price_date |-> price_date, status |-> 0]
ResultError(status) ==
    [kind |-> "error", source |-> "-", currentPrice |-> 0, price_date |-> NoDate,
     status |-> status]

\* the fields of api_data that fetch_current_price and _save_to_db read
NoApiData == [currentPrice |-> 0, price_date |-> NoDate]
ApiData(api) == [currentPrice |-> api.currentPrice, price_date |-> api.price_date]

\* ------------------------------------------------------------------------
\* PriceService
\* ------------------------------------------------------------------------

\* _normalize_grade_for_storage
normalize_grade_for_storage(part_name, grade_code) ==
    IF StartsWith(part_name, "Beef_") /\ ~StartsWith(part_name, "Import_Beef_")
    THEN (IF grade_code \in {"01", "02", "03"} THEN grade_code ELSE "")
    ELSE ""

\* a faulty variant of CacheQuery: the region is not compared (line 131 dropped)
CacheQuery_AnyRegion(rows, part_name, region, g, day) ==
    {r \in rows : /\ r.part_name = part_name
                  /\ r.grade_code = g
                  /\ r.price_date >= day - cache_days}

\* the rows the query of _get_from_db_cache matches (lines 129-135)
CacheQuery(rows, part_name, region, g, day) ==
    {r \in rows : /\ r.part_name = part_name
                  /\ r.region = region
                  /\ r.grade_code = g
                  /\ r.price_date >= day - cache_days}

\* order_by(desc(price_date)).limit(1): the rows that can come first
FirstByDateDesc(rows) == {r \in rows : \A x \in rows : x.price_date <= r.price_date}

\* a faulty variant of get_from_db_cache: the early returns of lines 121-126 are
\* dropped and a domestic beef part asked with grade 00 is looked up under ''
get_from_db_cache_ServesAllGrades(rows, part_name, region, day, grade_code) ==
    LET g == normalize_grade_for_storage(part_name, grade_code)
        found == FirstByDateDesc(CacheQuery(rows, part_name, region, g, day))
    IN  IF found = {} THEN {NoCache}
        ELSE {CacheHit(r.current_price, strftime(r.price_date)) : r \in found}

\* _get_from_db_cache: the set of values it can return on the rows read
\* (one value, unless two rows share the latest date)
get_from_db_cache(rows, part_name, region, day, grade_code) ==
    LET domestic == StartsWith(part_name, "Beef_") /\ ~StartsWith(part_name, "Import_Beef_")
        g == IF domestic
             THEN (IF grade_code \in {"01", "02", "03"} THEN grade_code ELSE "")
             ELSE ""
        found == FirstByDateDesc(CacheQuery(rows, part_name, region, g, day))
    IN  IF domestic /\ grade_code = "00" THEN {NoCache}
        ELSE IF domestic /\ g = "" THEN {NoCache}
        ELSE IF found = {} THEN {NoCache}
        ELSE {CacheHit(r.current_price, strftime(r.price_date)) : r \in found}

\* a faulty variant of IsFreshDate: only a row dated today is fresh
IsFreshDate_TodayOnly(cache_date, day) == cache_date = day

\* a faulty variant of IsFreshDate: the lower bound is dropped, every past row is fresh
IsFreshDate_NoLowerBound(cache_date, day) == cache_date <= day

\* line 40: yesterday <= cache_date <= today
IsFreshDate(cache_date, day) == day - 1 <= cache_date /\ cache_date <= day

\* lines 36-43: the cached value is served at once
IsFresh(cache_data, day) ==
    /\ cache_data.hit
    /\ strptime(cache_data.price_date).ok
    /\ IsFreshDate(strptime(cache_data.price_date).day, day)

\* ------------------------------------------------------------------------
\* Observers used to state the claims
\* ------------------------------------------------------------------------

\* the rows stored under the storage key of a request
KeyRows(rows, part_name, region, grade_code) ==
    {r \in rows : /\ r.part_name = part_name
                  /\ r.region = region
                  /\ r.grade_code = normalize_grade_for_storage(part_name, grade_code)}

\* the class of one feed response for one sub-pipeline
ClassOf(part_name, region, gc, target_day, resp) ==
    IF resp.net # "ok" THEN "FeedUnavailable"
    ELSE IF parse_response(resp.body) = "E502" THEN "FeedFormatError"
    ELSE IF resp.error_code \notin {"0", "000"} THEN "FeedLogicError"
    ELSE LET r == fetch_kamis_price_single(part_name, region, gc, target_day, resp)
         IN  CASE r.tag = "ok" -> "ok" [] r.tag = "none" -> "NotFound" [] OTHER -> "crash"

\* the class of a whole call: "ok" when a grade resolved, the common class of
\* the sub-pipelines when they all failed alike, "mixed" otherwise
FeedClass(part_name, region, grade_code, day, resps) ==
    LET cs == {ClassOf(part_name, region, gc, day - 1, resps[gc]) :
                    gc \in FetchedGrades(part_name, grade_code)}
    IN  IF part_name \notin PRICE_AVAILABLE_PARTS THEN "no_codes"
        ELSE IF "ok" \in cs THEN "ok"
        ELSE IF Cardinality(cs) = 1 THEN CHOOSE c \in cs : TRUE
        ELSE "mixed"

\* the lifecycle state of a storage key on a day, by the age of its latest row
KeyState(rows, part_name, region, grade_code, day) ==
    LET kr == KeyRows(rows, part_name, region, grade_code)
        latest == CHOOSE r \in kr : \A x \in kr : x.price_date <= r.price_date
        age == day - latest.price_date
    IN  IF kr = {} THEN "missing"
        ELSE IF age < 0 THEN "future"
        ELSE IF age <= 1 THEN "fresh"
        ELSE IF age <= cache_days THEN "stale"
        ELSE "expired"

\* ------------------------------------------------------------------------
\* Inputs of the model
\* ------------------------------------------------------------------------

\* the (part_name, grade_code) pairs and the regions the calls ask for
RequestKeys == {<<"Beef_Rib", "00">>, <<"Beef_Rib", "01">>, <<"Pork_Belly", "00">>}
RequestRegions == {"jeonguk"}

AvgItem(price) == Item("pyeonggyun", "", price, NoneVal, RegDay("YYYY-MM-DD", 0), 0)

\* the responses the feed gives in the model
Feed ==
    { Response("timeout", "blank", "000", <<>>),
      Response("http_error", "blank", "000", <<>>),
      Response("ok", "html", "000", <<>>),
      Response("ok", "xml", "200", <<AvgItem("100")>>),
      Response("ok", "xml", "000", <<>>),
      Response("ok", "xml", "000", <<Item("busan", "", "100", NoneVal, RegDay("YYYYMMDD", 0), 0)>>),
      Response("ok", "xml", "000", <<AvgItem("inf")>>),
      Response("ok", "xml", "000", <<AvgItem("100")>>),
      Response("ok", "xml", "000", <<AvgItem("200")>>),
      \* a row dated after every day of the model, and a row whose regday has
      \* none of the known shapes
      Response("ok", "xml", "000",
               <<Item("pyeonggyun", "", "100", NoneVal, RegDay("YYYY-MM-DD", MaxDay + 5), 0)>>),
      Response("ok", "xml", "000",
               <<Item("pyeonggyun", "", "100", NoneVal, RegDay("text", 0), 0)>>) }

\* responses whose row is dated another day than the rows of Feed
DatedFeed ==
    { Response("ok", "xml", "000", <<Item("", "", "1,000", NoneVal, RegDay("MM/DD", 1), 2024)>>) }

\* the responses drawn for the three sub-pipelines of an all-grades call
AggFeed ==
    { Response("timeout", "blank", "000", <<>>),
      Response("ok", "xml", "000", <<AvgItem("100")>>),
      Response("ok", "xml", "000", <<AvgItem("200")>>) }

FeedFor(part_name, grade_code) ==
    IF Cardinality(FetchedGrades(part_name, grade_code)) > 1 THEN AggFeed ELSE Feed

\* ------------------------------------------------------------------------
\* Actions: PriceService.fetch_current_price, one step per await
\* ------------------------------------------------------------------------

SinglePending == [tag |-> "pending", status |-> 0, price |-> 0, date |-> NoDate]

\* no all-grades call in progress; cls is the class of the response each
\* sub-pipeline received, results what each _fetch_one_grade returned
IdleAgg ==
    [pc |-> "idle", part_name |-> "", region |-> "", day |-> 0,
     cls |-> [gc \in {"01", "02", "03"} |-> "-"],
     results |-> [gc \in {"01", "02", "03"} |-> SinglePending],
     \* observer: the grade codes in the order their sub-pipelines completed
     order |-> <<>>,
     out |-> ApiCrash]

\* no request was sent
NoResponse == Response("none", "blank", "000", <<>>)

\* the outcome of the price-history route for one part: tag "ok" or "http"
\* (the HTTPException re-raised), period the outcome of fetch_kamis_price_period
History(tag, status, period, daily, weekly) ==
    [tag |-> tag, status |-> status, period |-> period, daily |-> daily, weekly |-> weekly]

\* no pipeline has run. kept, best and out are the outcome of the selection of
\* _fetch_kamis_price_single, history the outcome of the price-history route
IdlePipe ==
    [pc |-> "idle", part_name |-> "", region |-> "", grade_code |-> "", day |-> 0,
     weeks |-> 0, resp |-> NoResponse,
     resps |-> [gc \in {"01", "02", "03"} |-> NoResponse],
     kept |-> {}, best |-> 0, out |-> SingleNone,
     history |-> History("idle", 0, "idle", <<>>, <<>>)]

IdleSession ==
    [pc |-> "idle", part_name |-> "", region |-> "", grade_code |-> "", db |-> FALSE,
     cache_data |-> NoCache, api_data |-> NoApiData, existing |-> 0,
     result |-> NoResult,
     \* observers: the key's state when the call began, the class of the feed's
     \* answer, whether a DB statement failed, whether the call wrote a row
     key_state |-> "-", feed |-> "-", db_error |-> FALSE, wrote |-> FALSE]

Init ==
    /\ today = 1
    /\ market_prices = {}
    /\ sess = [s \in Sessions |-> IdleSession]
    /\ nreq = 0
    /\ agg = IdleAgg
    /\ pipe = IdlePipe

\* lines 29-45: read the clock, look the key up, serve a fresh row at once
Request(s, part_name, region, grade_code, db) ==
    /\ sess[s].pc = "idle"
    /\ nreq < MaxRequests
    /\ \E cache_data \in
            IF db
            THEN get_from_db_cache(Visible(market_prices, s), part_name, region, today,
                                   grade_code)
            ELSE {NoCache} :
        LET base == [IdleSession EXCEPT
                        !.part_name = part_name, !.region = region,
                        !.grade_code = grade_code, !.db = db,
                        !.key_state = KeyState(Visible(market_prices, s), part_name, region,
                                               grade_code, today)]
        IN  sess' = [sess EXCEPT ![s] =
                IF IsFresh(cache_data, today)
                THEN [base EXCEPT !.pc = "done",
                        !.result = ResultOk("cache", cache_data.currentPrice,
                                            cache_data.price_date)]
                ELSE [base EXCEPT !.pc = "call_api", !.cache_data = cache_data]]
    /\ nreq' = nreq + 1
    /\ UNCHANGED <<today, market_prices>>

\* lines 62-66: what the call does once the feed gave no usable answer
Fallback(cur) ==
    IF cur.db /\ cur.cache_data.hit
    THEN ResultOk("cache", cur.cache_data.currentPrice, cur.cache_data.price_date)
    ELSE ResultError(503)

\* a faulty variant of AfterFetch: the HTTPException of the feed call is not
\* re-raised (lines 57-58 dropped) and the call falls back to the cache
AfterFetch_SwallowHttp(cur, api_data) ==
    CASE api_data.tag \in {"http", "crash"} ->
            [cur EXCEPT !.pc = "done", !.result = Fallback(cur)]
      [] api_data.tag = "ok" /\ api_data.currentPrice <= 0 ->
            [cur EXCEPT !.pc = "done", !.result = Fallback(cur)]
      [] api_data.tag = "ok" /\ api_data.currentPrice > 0 /\ cur.db ->
            [cur EXCEPT !.pc = "save_select", !.api_data = ApiData(api_data)]
      [] OTHER ->
            [cur EXCEPT !.pc = "done",
                !.result = ResultOk("api", api_data.currentPrice, api_data.price_date)]

\* lines 53-66: what the call does with the outcome of the feed call
AfterFetch(cur, api_data) ==
    CASE api_data.tag = "http" ->
            [cur EXCEPT !.pc = "done", !.result = ResultError(api_data.status)]
      [] api_data.tag = "crash" ->
            [cur EXCEPT !.pc = "done", !.result = Fallback(cur)]
      [] api_data.tag = "ok" /\ api_data.currentPrice <= 0 ->
            [cur EXCEPT !.pc = "done", !.result = Fallback(cur)]
      [] api_data.tag = "ok" /\ api_data.currentPrice > 0 /\ cur.db ->
            [cur EXCEPT !.pc = "save_select", !.api_data = ApiData(api_data)]
      [] OTHER ->
            [cur EXCEPT !.pc = "done",
                !.result = ResultOk("api", api_data.currentPrice, api_data.price_date)]

\* lines 47-66: call the feed; resps is what the feed answers for each grade asked
KamisFetch(s, resps) ==
    /\ sess[s].pc = "call_api"
    /\ \E api_data \in {fetch_kamis_price(sess[s].part_name, sess[s].region,
                                          sess[s].grade_code, today, resps)} :
        sess' = [sess EXCEPT ![s] =
                    [AfterFetch(sess[s], api_data) EXCEPT
                        !.feed = FeedClass(sess[s].part_name, sess[s].region,
                                           sess[s].grade_code, today, resps),
                        !.cache_data = NoCache]]
    /\ UNCHANGED <<today, market_prices, nreq>>

\* what fetch_current_price returns after _save_to_db
ReturnApi(cur) ==
    [cur EXCEPT !.pc = "done", !.api_data = NoApiData, !.existing = 0,
        !.result = ResultOk("api", cur.api_data.currentPrice, cur.api_data.price_date)]

\* a faulty variant of SaveQuery: the SELECT compares the requested grade, not the stored one
SaveQuery_RawGrade(rows, part_name, region, grade_code, price_dt) ==
    {r \in rows : /\ r.part_name = part_name
                  /\ r.region = region
                  /\ r.price_date = price_dt
                  /\ r.grade_code = grade_code}

\* the rows the SELECT of _save_to_db matches (lines 88-95)
SaveQuery(rows, part_name, region, grade_code, price_dt) ==
    {r \in rows : /\ r.part_name = part_name
                  /\ r.region = region
                  /\ r.price_date = price_dt
                  /\ r.grade_code = normalize_grade_for_storage(part_name, grade_code)}

\* _save_to_db, lines 83-96: the SELECT of the existing row (limit 1: any one
\* of the matching rows). When price_date does not parse the exception is
\* logged and the price is returned unsaved.
SaveSelect(s) ==
    /\ sess[s].pc = "save_select"
    /\ LET cur == sess[s]
           price_dt == strptime(cur.api_data.price_date)
           found == SaveQuery(Visible(market_prices, s), cur.part_name, cur.region,
                              cur.grade_code, price_dt.day)
       IN  IF ~price_dt.ok
           THEN sess' = [sess EXCEPT ![s] = [ReturnApi(cur) EXCEPT !.db_error = TRUE]]
           ELSE \E existing \in (IF found = {} THEN {0} ELSE {r.id : r \in found}) :
                    sess' = [sess EXCEPT ![s] =
                                [cur EXCEPT !.pc = "save_flush", !.existing = existing]]
    /\ UNCHANGED <<today, market_prices, nreq>>

\* a faulty variant of UpdatedRows: the assignment of line 98 is lost
UpdatedRows_Lost(rows, id, s, price_val) == rows

\* line 98, row.current_price = price_val: the UPDATE session s holds
UpdatedRows(rows, id, s, price_val) ==
    {IF r.id = id THEN [r EXCEPT !.upd_by = s, !.upd_price = price_val] ELSE r : r \in rows}

\* lines 100-106, db.add(MarketPrice(...)): the INSERT session s holds
InsertedRows(rows, s, part_name, region, g, price_dt, price_val) ==
    rows \cup {Row(Cardinality(rows) + 1, part_name, region, g, price_dt, price_val, s)}

\* _save_to_db, lines 97-107: UPDATE the row found or INSERT a new one, flush,
\* and return the feed's value tagged api. An UPDATE waits for the row lock
\* another session's uncommitted UPDATE holds. db_fails: the statement raises,
\* the exception is logged and the price is returned unsaved.
SaveFlush(s, db_fails) ==
    /\ sess[s].pc = "save_flush"
    /\ LET cur == sess[s]
           price_dt == strptime(cur.api_data.price_date).day
           g == normalize_grade_for_storage(cur.part_name, cur.grade_code)
           price_val == cur.api_data.currentPrice
       IN  IF db_fails
           THEN /\ sess' = [sess EXCEPT ![s] = [ReturnApi(cur) EXCEPT !.db_error = TRUE]]
                /\ UNCHANGED market_prices
           ELSE /\ sess' = [sess EXCEPT ![s] = [ReturnApi(cur) EXCEPT !.wrote = TRUE]]
                /\ IF cur.existing # 0
                   THEN /\ \A r \in market_prices :
                                r.id = cur.existing => r.upd_by \in {"-", s}
                        /\ market_prices' =
                                UpdatedRows(market_prices, cur.existing, s, price_val)
                   ELSE market_prices' =
                            InsertedRows(market_prices, s, cur.part_name, cur.region, g,
                                         price_dt, price_val)
    /\ UNCHANGED <<today, nreq>>

\* get_db: the request ends and the session commits
Finish(s) ==
    /\ sess[s].pc = "done"
    /\ sess' = [sess EXCEPT ![s] = IdleSession]
    /\ market_prices' =
        {[r EXCEPT !.owner = IF r.owner = s THEN "committed" ELSE r.owner,
                   !.current_price = IF r.upd_by = s THEN r.upd_price ELSE r.current_price,
                   !.upd_by = IF r.upd_by = s THEN "-" ELSE r.upd_by,
                   !.upd_price = IF r.upd_by = s THEN 0 ELSE r.upd_price] :
            r \in market_prices}
    /\ UNCHANGED <<today, nreq>>

\* Midnight, between calls: a call lasts seconds (the feed request times out
\* after 15 s, line 766) and is taken to begin and end on one day. The first
\* call is made on day 1, and no day is added after the last call.
AdvanceDay ==
    /\ today < MaxDay
    /\ nreq >= 1
    /\ nreq < MaxRequests
    /\ \A s \in Sessions : sess[s].pc = "idle"
    /\ today' = today + 1
    /\ UNCHANGED <<market_prices, sess, nreq>>

\* the steps of the calls made through the sessions of S
Step(S) ==
    \/ \E s \in S, k \in RequestKeys, region \in RequestRegions, db \in BOOLEAN :
            Request(s, k[1], region, k[2], db)
    \/ \E s \in {x \in S : sess[x].pc = "call_api"} :
        \E resps \in [FetchedGrades(sess[s].part_name, sess[s].grade_code) ->
                        FeedFor(sess[s].part_name, sess[s].grade_code)] :
            KamisFetch(s, resps)
    \/ \E s \in S : SaveSelect(s)
    \/ \E s \in S, db_fails \in BOOLEAN : SaveFlush(s, db_fails)
    \/ \E s \in S : Finish(s)
    \/ AdvanceDay

\* calls that do not overlap: one session
Next == Step({"s1"}) /\ UNCHANGED <<agg, pipe>>

Spec == Init /\ [][Next]_vars

\* calls that overlap: every session
ConcNext == Step(Sessions) /\ UNCHANGED <<agg, pipe>>

ConcSpec == Init /\ [][ConcNext]_vars

\* ------------------------------------------------------------------------
\* The all-grades branch of fetch_kamis_price, one step per sub-pipeline
\* ------------------------------------------------------------------------

AggRegions == {"jeonguk", "seoul"}

\* lines 534-535: grade "00" on a domestic beef part that has feed codes
AggStart(part_name, region, day) ==
    /\ agg.pc = "idle"
    /\ kamis_api_key_set
    /\ part_name \in PRICE_AVAILABLE_PARTS
    /\ StartsWith(part_name, "Beef_")
    /\ agg' = [IdleAgg EXCEPT !.pc = "fanout", !.part_name = part_name,
                              !.region = region, !.day = day]

\* lines 537-552: one _fetch_one_grade completes; asyncio.gather lets the
\* three complete in any order
AggSub(gc, resp) ==
    /\ agg.pc = "fanout"
    /\ agg.results[gc].tag = "pending"
    /\ agg' = [agg EXCEPT
                !.cls[gc] = ClassOf(agg.part_name, agg.region, gc, agg.day - 1, resp),
                !.results[gc] = fetch_one_grade(agg.part_name, agg.region, gc,
                                                agg.day - 1, resp),
                !.order = Append(@, gc)]

\* lines 554-592: the barrier of asyncio.gather, then the breakdown and the mean
AggJoin ==
    /\ agg.pc = "fanout"
    /\ \A gc \in {"01", "02", "03"} : agg.results[gc].tag # "pending"
    /\ agg' = [agg EXCEPT !.pc = "joined",
                          !.out = aggregate_grades(agg.part_name, agg.results)]

\* the call returns (or raises) to its caller
AggReturn ==
    /\ agg.pc = "joined"
    /\ agg' = IdleAgg

AggNext ==
    /\ \/ \E part_name \in PartNames, region \in AggRegions, day \in 1..MaxDay :
            AggStart(part_name, region, day)
       \/ \E gc \in {"01", "02", "03"}, resp \in Feed \cup DatedFeed : AggSub(gc, resp)
       \/ AggJoin
       \/ AggReturn
    /\ UNCHANGED <<today, market_prices, sess, nreq, pipe>>

AggSpec == Init /\ [][AggNext]_vars

\* ------------------------------------------------------------------------
\* The feed pipelines on one response: the rows, the selection, the series
\* ------------------------------------------------------------------------

\* the most rows of one feed response
MaxItems == 2

\* the day before the earliest request day of the pipeline runs
BaseDay == 11

PipeDays == {BaseDay + 1, BaseDay + 2}
PipeRegions == {"jeonguk", "seoul", "online"}

AvgRow(price, regday, yyyy) == Item("pyeonggyun", "", price, NoneVal, regday, yyyy)

\* the rows the feed sends in the model
FeedItems ==
    { AvgRow("100", RegDay("YYYY-MM-DD", BaseDay), 0),
      AvgRow("200", RegDay("YYYY-MM-DD", BaseDay), 0),
      AvgRow("100", RegDay("YYYYMMDD", BaseDay - 1), 0),
      AvgRow("200", RegDay("YYYYMMDD", BaseDay + 5), 0),
      AvgRow("100", RegDay("MM/DD", BaseDay), 2024),
      AvgRow("100", RegDay("MM/DD", BaseDay), 1999),
      AvgRow("100", NoRegDay, 0),
      AvgRow("0", RegDay("YYYY-MM-DD", BaseDay), 0),
      AvgRow("inf", RegDay("YYYY-MM-DD", BaseDay), 0),
      AvgRow("abc", RegDay("YYYY-MM-DD", BaseDay), 0),
      Item("", "", NoneVal, "99.9", RegDay("YYYY/MM/DD", BaseDay), 0),
      Item("pyeonggyun", "", "-", "100", RegDay("YYYY-MM-DD", BaseDay), 0),
      AvgRow("200", RegDay("YYYY-MM-DD", BaseDay + 1), 0),
      Item("seoul", "mart", "200", NoneVal, RegDay("YYYY-MM-DD", BaseDay), 0),
      Item("busan", "g_auction", "100", NoneVal, RegDay("YYYY-MM-DD", BaseDay), 0),
      Item("seoul", "online_mall_A", "1,000", NoneVal, RegDay("YYYY-MM-DD", BaseDay), 0) }

ItemSeqs == UNION {[1..n -> FeedItems] : n \in 0..MaxItems}

\* the responses of the feed to one request of a pipeline
PipeFeed ==
    { Response("timeout", "blank", "000", <<>>), Response("ok", "html", "000", <<>>) }
    \cup {Response("ok", "xml", ec, items) : ec \in {"000", "200"}, items \in ItemSeqs}

\* lines 782-805: the rows the selection loop reads
SelectionItems(resp) == IF resp.error_code \in {"0", "000"} THEN resp.items ELSE <<>>

\* one call of _fetch_kamis_price_single, on the response resp of the feed
CurrentRun(part_name, region, grade_code, day, resp) ==
    LET items == SelectionItems(resp)
        reads == resp.net = "ok" /\ parse_response(resp.body) = "dict"
    IN  /\ pipe.pc = "idle"
        /\ pipe' = [IdlePipe EXCEPT
                    !.pc = "current", !.part_name = part_name, !.region = region,
                    !.grade_code = grade_code, !.day = day, !.resp = resp,
                    !.kept = IF reads
                             THEN {i \in 1..Len(items) : RegionKeeps(region, items[i])}
                             ELSE {},
                    !.best = IF reads THEN SelectBest(items, region, 1, 0, 999) ELSE 0,
                    !.out = fetch_kamis_price_single(part_name, region, grade_code,
                                                     day - 1, resp)]

\* the most weeks a price-history request asks for
MaxWeeks == 2

\* one price a day for n days from day first: all 100, or 100 and 200 in turn
Series(first, n, pat) ==
    Response("ok", "xml", "000",
        [i \in 1..n |->
            AvgRow(IF pat = "alt" /\ i % 2 = 0 THEN "200" ELSE "100",
                   RegDay("YYYY-MM-DD", first + i - 1), 0)] \o <<>>)

\* the daily series the feed sends: full ones, and one with two days missing
SeriesFeed ==
    {Series(first, n, pat) :
        first \in {BaseDay - 13, BaseDay - 7}, n \in {8, 14}, pat \in {"flat", "alt"}}
    \cup { Response("ok", "xml", "000",
                <<AvgRow("100", RegDay("YYYY-MM-DD", BaseDay - 3), 0),
                  AvgRow("130", RegDay("YYYY-MM-DD", BaseDay), 0)>>) }

\* the responses drawn for the three sub-calls of an all-grades history
HistoryAggFeed ==
    { Response("timeout", "blank", "000", <<>>),
      Response("ok", "html", "000", <<>>),
      Series(BaseDay - 7, 8, "flat"),
      Series(BaseDay - 7, 8, "alt"),
      Response("ok", "xml", "000", <<AvgRow("200", RegDay("YYYY-MM-DD", BaseDay), 0)>>) }

HistoryFeedFor(part_name, grade_code) ==
    IF Cardinality(FetchedGrades(part_name, grade_code)) > 1
    THEN HistoryAggFeed ELSE PipeFeed \cup SeriesFeed

\* get_dashboard_price_history for one part: the daily series of the period
\* pipeline, then its weekly buckets
PriceHistory(part_name, region, grade_code, weeks, day, resps) ==
    /\ pipe.pc = "idle"
    /\ part_name \in DOMAIN part_display_map
    /\ \E r \in fetch_kamis_price_period(part_name, region, grade_code, weeks, day, resps) :
        pipe' = [IdlePipe EXCEPT
                    !.pc = "history", !.part_name = part_name, !.region = region,
                    !.grade_code = grade_code, !.day = day, !.weeks = weeks,
                    !.resp = IF grade_code \in DOMAIN resps
                             THEN resps[grade_code] ELSE NoResponse,
                    !.resps = [gc \in {"01", "02", "03"} |->
                                IF gc \in DOMAIN resps THEN resps[gc] ELSE NoResponse],
                    !.history =
                        CASE r.tag = "http" -> History("http", r.status, "http", <<>>, <<>>)
                          [] r.tag = "crash" -> History("ok", 0, "crash", <<>>, <<>>)
                          [] OTHER ->
                                History("ok", 0, "ok", r.daily,
                                    IF r.daily = <<>> THEN <<>>
                                    ELSE aggregate_daily_by_week(r.daily,
                                            part_display_map[part_name], day))]

\* the run returns (or raises) to its caller
PipeReturn ==
    /\ pipe.pc # "idle"
    /\ pipe' = IdlePipe

FeedNext ==
    /\ \/ /\ pipe.pc = "idle"
          /\ \E k \in RequestKeys \ {<<"Beef_Rib", "00">>}, region \in PipeRegions,
                day \in PipeDays, resp \in PipeFeed :
                CurrentRun(k[1], region, k[2], day, resp)
       \/ /\ pipe.pc = "idle"
          /\ \E k \in RequestKeys, region \in PipeRegions, weeks \in 1..MaxWeeks,
                day \in PipeDays :
                \E resps \in [FetchedGrades(k[1], k[2]) -> HistoryFeedFor(k[1], k[2])] :
                    PriceHistory(k[1], region, k[2], weeks, day, resps)
       \/ PipeReturn
    /\ UNCHANGED <<today, market_prices, sess, nreq, agg>>

FeedSpec == Init /\ [][FeedNext]_vars

\* ------------------------------------------------------------------------
\* The cache store called directly: _save_to_db, then _get_from_db_cache
\* ------------------------------------------------------------------------

\* the price_data dicts handed to _save_to_db: a price, and a date string of
\* today, of yesterday, of a day older than the retention window, or malformed
SavedData ==
    {[currentPrice |-> p, price_date |-> d] :
        p \in {100, 200},
        d \in {strftime(1), strftime(0), strftime(1 - cache_days - 1), [bad |-> TRUE]}}

\* _save_to_db(db, part_name, region, grade_code, price_data) in session s:
\* the row of the key and date is updated when there is one, else a row is
\* added; a date that does not parse raises inside the try block and nothing
\* is stored
RtSave(s, part_name, region, grade_code, price_data) ==
    /\ sess[s].pc = "idle"
    /\ nreq < MaxRequests
    /\ nreq' = nreq + 1
    /\ LET price_dt == strptime(price_data.price_date)
           g == normalize_grade_for_storage(part_name, grade_code)
           found == SaveQuery(Visible(market_prices, s), part_name, region,
                              grade_code, price_dt.day)
           cur == [IdleSession EXCEPT !.pc = "rt_saved", !.part_name = part_name,
                        !.region = region, !.grade_code = grade_code, !.db = TRUE,
                        !.api_data = price_data]
       IN  IF ~price_dt.ok
           THEN /\ sess' = [sess EXCEPT ![s] = [cur EXCEPT !.db_error = TRUE]]
                /\ UNCHANGED market_prices
           ELSE \E existing \in (IF found = {} THEN {0} ELSE {r.id : r \in found}) :
                /\ sess' = [sess EXCEPT ![s] =
                                [cur EXCEPT !.existing = existing, !.wrote = TRUE]]
                /\ market_prices' =
                        IF existing # 0
                        THEN UpdatedRows(market_prices, existing, s,
                                         price_data.currentPrice)
                        ELSE InsertedRows(market_prices, s, part_name, region, g,
                                          price_dt.day, price_data.currentPrice)
    /\ UNCHANGED today

\* _get_from_db_cache(db, part_name, region, today, grade_code) in the same
\* session, right after the save
RtRead(s) ==
    /\ sess[s].pc = "rt_saved"
    /\ \E c \in get_from_db_cache(Visible(market_prices, s), sess[s].part_name,
                                  sess[s].region, today, sess[s].grade_code) :
            sess' = [sess EXCEPT ![s] = [@ EXCEPT !.pc = "rt_read", !.cache_data = c]]
    /\ UNCHANGED <<today, market_prices, nreq>>

\* get_db: the request that made the two calls ends and the session commits
RtCommit(s) ==
    /\ sess[s].pc = "rt_read"
    /\ sess' = [sess EXCEPT ![s] = IdleSession]
    /\ market_prices' =
        {[r EXCEPT !.owner = IF r.owner = s THEN "committed" ELSE r.owner,
                   !.current_price = IF r.upd_by = s THEN r.upd_price ELSE r.current_price,
                   !.upd_by = IF r.upd_by = s THEN "-" ELSE r.upd_by,
                   !.upd_price = IF r.upd_by = s THEN 0 ELSE r.upd_price] :
            r \in market_prices}
    /\ UNCHANGED <<today, nreq>>

RtNext ==
    /\ \/ /\ sess["s1"].pc = "idle"
          /\ \E k \in RequestKeys, region \in RequestRegions, price_data \in SavedData :
                RtSave("s1", k[1], region, k[2], price_data)
       \/ RtRead("s1")
       \/ RtCommit("s1")
    /\ UNCHANGED <<agg, pipe>>

RtSpec == Init /\ [][RtNext]_vars

\* ------------------------------------------------------------------------
\* fetch_current_price over several regions and grades, one call at a time,
\* always with a DB session, all on one day
\* ------------------------------------------------------------------------

\* the (part_name, grade_code) pairs and the regions these calls ask for
IsoKeys == RequestKeys \cup {<<"Beef_Rib", "02">>}
IsoRegions == {"jeonguk", "seoul"}

\* the responses the feed gives to these calls
IsoFeed ==
    { Response("timeout", "blank", "000", <<>>),
      Response("ok", "xml", "000", <<AvgItem("100")>>),
      Response("ok", "xml", "000", <<AvgItem("200")>>) }

IsoNext ==
    /\ \/ \E k \in IsoKeys, region \in IsoRegions : Request("s1", k[1], region, k[2], TRUE)
       \/ /\ sess["s1"].pc = "call_api"
          /\ \E resps \in [FetchedGrades(sess["s1"].part_name, sess["s1"].grade_code) ->
                            IsoFeed] :
                KamisFetch("s1", resps)
       \/ SaveSelect("s1")
       \/ \E db_fails \in BOOLEAN : SaveFlush("s1", db_fails)
       \/ Finish("s1")
    /\ UNCHANGED <<agg, pipe>>

\* the store as earlier calls, made on day 1, left it: the row of Beef_Rib
\* grade 01 in seoul, the row of an all-grades call in jeonguk, and the row of
\* Pork_Belly in seoul
IsoStored ==
    { Row(1, "Beef_Rib", "seoul", "01", 0, 130, "committed"),
      Row(2, "Beef_Rib", "jeonguk", "", 0, 150, "committed"),
      Row(3, "Pork_Belly", "seoul", "", 0, 1000, "committed") }

IsoInit ==
    /\ today = 1
    /\ market_prices = IsoStored
    /\ sess = [s \in Sessions |-> IdleSession]
    /\ nreq = 0
    /\ agg = IdleAgg
    /\ pipe = IdlePipe

IsoSpec == IsoInit /\ [][IsoNext]_vars

\* ------------------------------------------------------------------------
\* Claims
\* ------------------------------------------------------------------------

Done(s) == sess[s].pc = "done"

\* the request of session s is one whose key _get_from_db_cache looks up: every
\* part but domestic beef, and domestic beef asked with grade 01, 02 or 03
CacheConsulted(s) ==
    ~(StartsWith(sess[s].part_name, "Beef_") /\ sess[s].grade_code \notin {"01", "02", "03"})

\* the rows of the key of session s that hold the value the call returned
ReturnedRows(s) ==
    {r \in KeyRows(Visible(market_prices, s), sess[s].part_name, sess[s].region,
                   sess[s].grade_code) :
        /\ strftime(r.price_date) = sess[s].result.price_date
        /\ r.current_price = sess[s].result.currentPrice}

\* C1 (as claimed): a call made with a DB session whose key held a Stale row
\* when it began, and whose refresh failed with FeedUnavailable, returns the
\* stale value tagged source=cache and raises nothing. (Stated for the keys
\* the cache lookup serves, where the stale row is the fallback candidate.)
C1_StaleServedWhenFeedUnavailable ==
    \A s \in Sessions :
        (Done(s) /\ sess[s].db /\ sess[s].key_state = "stale" /\ CacheConsulted(s)
                 /\ sess[s].feed = "FeedUnavailable")
            => (sess[s].result.kind = "ok" /\ sess[s].result.source = "cache")

\* C2 (as claimed): the committed rows never hold two rows for one
\* (part_name, region, grade_code, price_date), however two calls interleave.
C2_OneRowPerKeyUnderRaces ==
    \A r1, r2 \in Committed(market_prices) :
        (/\ r1.part_name = r2.part_name
         /\ r1.region = r2.region
         /\ r1.grade_code = r2.grade_code
         /\ r1.price_date = r2.price_date) => r1.id = r2.id

C4_ApiResultIsStored ==
    \A s \in Sessions :
        (Done(s) /\ sess[s].result.source = "api" /\ sess[s].db /\ ~sess[s].db_error)
            => ReturnedRows(s) # {}

\* C4 witness: such a call has returned after overwriting a row of another price
C4_Witness ==
    \E s \in Sessions :
        /\ Done(s) /\ sess[s].result.source = "api" /\ sess[s].db /\ ~sess[s].db_error
        /\ \E r \in market_prices : r.upd_by = s /\ r.upd_price # r.current_price

\* the storage keys (part_name, region, grade_code) the calls of the model write
StorageKeys ==
    {<<k[1], region, normalize_grade_for_storage(k[1], k[2])>> :
        k \in RequestKeys, region \in RequestRegions}

StoredRows(rows, key) ==
    {r \in rows : r.part_name = key[1] /\ r.region = key[2] /\ r.grade_code = key[3]}

NoDuplicateKey(rows) ==
    \A r1, r2 \in rows :
        (/\ r1.part_name = r2.part_name
         /\ r1.region = r2.region
         /\ r1.grade_code = r2.grade_code
         /\ r1.price_date = r2.price_date) => r1 = r2

\* C5: when the refreshes do not overlap the table never holds two rows for one
\* (part_name, region, grade_code, price_date), and a write for a key and date
\* already stored sets that row's price and leaves the number of rows as it
\* was (a write for a new key or date adds one row).
C5_UpsertOverwrites ==
    [][ /\ NoDuplicateKey(market_prices')
        /\ \A s \in Sessions :
            (sess[s].pc = "save_flush" /\ sess'[s].wrote) =>
                LET key == <<sess[s].part_name, sess[s].region,
                             normalize_grade_for_storage(sess[s].part_name,
                                                         sess[s].grade_code)>>
                    d == strptime(sess[s].api_data.price_date).day
                    before == {r \in StoredRows(Visible(market_prices, s), key) :
                                    r.price_date = d}
                    after == {r \in StoredRows(Visible(market_prices', s), key) :
                                    r.price_date = d}
                IN  /\ \A r \in after : r.current_price = sess[s].api_data.currentPrice
                    /\ after # {}
                    /\ Cardinality(market_prices') =
                        Cardinality(market_prices) + (IF before = {} THEN 1 ELSE 0)
      ]_vars

\* C5 witness: the second call has overwritten the price of the one stored row
C5_Witness ==
    /\ nreq = 2
    /\ Cardinality(market_prices) = 1
    /\ \E s \in Sessions, r \in market_prices :
        /\ Done(s) /\ sess[s].wrote
        /\ r.owner = "committed" /\ r.upd_by = s /\ r.upd_price # r.current_price

\* the lifecycle state the read path gives a storage key on a day: the outcome
\* of the lookup query (lines 129-141) and of the freshness test (line 40)
Lifecycle(rows, key, day) ==
    LET found == FirstByDateDesc(CacheQuery(rows, key[1], key[2], key[3], day))
    IN  IF found = {} THEN "Missing"
        ELSE IF \A r \in found : IsFreshDate(r.price_date, day) THEN "Fresh"
        ELSE "Stale"

\* the lifecycle state by the age of the key's latest row, as the claim gives it
LifecycleByAge(rows, key, day) ==
    LET kr == StoredRows(rows, key)
        latest == CHOOSE r \in kr : \A x \in kr : x.price_date <= r.price_date
        age == day - latest.price_date
    IN  IF kr = {} THEN "Missing"
        ELSE IF age <= 1 THEN "Fresh"
        ELSE IF age <= cache_days THEN "Stale"
        ELSE "Missing"

LifecycleMove(a, b) ==
    \/ a = b
    \/ a = "Fresh" /\ b = "Stale"
    \/ a = "Stale" /\ b = "Missing"

FeedErrors == {"FeedUnavailable", "FeedFormatError", "FeedLogicError"}

\* C7 (as claimed): when the feed fails and any row is stored for the key,
\* however old, the call returns a cached value tagged source=cache; an error
\* reaches the caller only when no row at all is stored for the key. (Stated
\* for the keys the cache lookup serves.)
C7_AnyStoredRowServedOnFailure ==
    \A s \in Sessions :
        (Done(s) /\ sess[s].db /\ CacheConsulted(s) /\ sess[s].feed \in FeedErrors)
            => /\ sess[s].key_state # "missing" =>
                    (sess[s].result.kind = "ok" /\ sess[s].result.source = "cache")
               /\ sess[s].result.kind = "error" => sess[s].key_state = "missing"

\* a call of session s failed and no fallback existed
FailedWithoutFallback(s) ==
    Done(s) /\ sess[s].result.kind = "error" /\ sess[s].key_state = "missing"

\* C8 (as claimed): of two calls that fail without a fallback, two whose feed
\* failed with FeedUnavailable, FeedFormatError or FeedLogicError show the
\* caller one and the same outcome, and a call that ended NotFound shows an
\* outcome distinct from theirs.
C8_TwoOutcomes ==
    \A s, t \in Sessions :
        (FailedWithoutFallback(s) /\ FailedWithoutFallback(t)) =>
            /\ (sess[s].feed \in FeedErrors /\ sess[t].feed \in FeedErrors)
                    => sess[s].result.status = sess[t].result.status
            /\ (sess[s].feed \in FeedErrors /\ sess[t].feed = "NotFound")
                    => sess[s].result.status # sess[t].result.status

\* the grades whose sub-pipeline received a response that yields a price
ResolvedGrades == {gc \in {"01", "02", "03"} : agg.cls[gc] = "ok"}

\* the grade names of a breakdown, in order
BreakdownGrades(out) == [i \in 1..Len(out.gradePrices) |-> out.gradePrices[i].grade]

RECURSIVE NamesOf(_, _, _)
NamesOf(part_name, grades, i) ==
    IF i > Len(grade_codes_to_fetch) THEN <<>>
    ELSE (IF grade_codes_to_fetch[i] \in grades
          THEN <<grade_code_map(part_name)[grade_codes_to_fetch[i]]>> ELSE <<>>)
         \o NamesOf(part_name, grades, i + 1)

\* C9: an all-grades call on a domestic beef part fails with NotFound (404)
\* exactly when none of the grades 01, 02, 03 resolves, whatever made each one
\* fail (transport error, unparseable body, error code, no data, an exception
\* of the conversion); it ends in no other failure, and otherwise its
\* breakdown lists exactly the resolved grades, the failed ones omitted.
C9_PartialFailureIsolated ==
    agg.pc = "joined" =>
        /\ agg.out.tag \in {"ok", "http"}
        /\ agg.out.tag = "http" <=> ResolvedGrades = {}
        /\ agg.out.tag = "http" => agg.out.status = 404
        /\ agg.out.tag = "ok" =>
                BreakdownGrades(agg.out) = NamesOf(agg.part_name, ResolvedGrades, 1)

\* C9 witness: one grade failed by an exception, one by no data, one resolved
C9_Witness ==
    /\ agg.pc = "joined"
    /\ agg.out.tag = "ok"
    /\ Len(agg.out.gradePrices) = 1
    /\ \E g1, g2 \in {"01", "02", "03"} :
            agg.cls[g1] = "FeedUnavailable" /\ agg.cls[g2] = "NotFound"

ResolvedPrice(gc) == IF agg.results[gc].tag = "ok" THEN agg.results[gc].price ELSE 0

ResolvedSum == ResolvedPrice("01") + ResolvedPrice("02") + ResolvedPrice("03")

ResolvedCount == Cardinality({gc \in {"01", "02", "03"} : agg.results[gc].tag = "ok"})

ResolvedTo(p, q) ==
    /\ ResolvedCount = 2
    /\ \E g1, g2 \in {"01", "02", "03"} :
            g1 # g2 /\ ResolvedPrice(g1) = p /\ ResolvedPrice(g2) = q

\* C10 (as claimed): on success currentPrice equals the sum of the resolved
\* per-grade prices divided by their number, the breakdown has one entry per
\* resolved grade, and grades resolving to 100 and 200 give 150 and a
\* breakdown of length 2.
C10_AggregateIsMean ==
    (agg.pc = "joined" /\ agg.out.tag = "ok") =>
        /\ agg.out.currentPrice * ResolvedCount = ResolvedSum
        /\ Len(agg.out.gradePrices) = ResolvedCount
        /\ ResolvedTo(100, 200) =>
                (agg.out.currentPrice = 150 /\ Len(agg.out.gradePrices) = 2)

\* C10 (amended): on success currentPrice is the integer part of the mean of
\* the resolved per-grade prices (the sum divided by their number, the
\* fraction dropped), the breakdown has one entry per resolved grade, and
\* grades resolving to 100 and 200 give exactly 150 and a breakdown of length 2.
C10_AggregateIsTruncatedMean ==
    (agg.pc = "joined" /\ agg.out.tag = "ok") =>
        /\ agg.out.currentPrice * ResolvedCount <= ResolvedSum
        /\ ResolvedSum < (agg.out.currentPrice + 1) * ResolvedCount
        /\ Len(agg.out.gradePrices) = ResolvedCount
        /\ ResolvedTo(100, 200) =>
                (agg.out.currentPrice = 150 /\ Len(agg.out.gradePrices) = 2)

\* C10 witness: three grades resolved and their mean is not a whole number
C10_Witness ==
    /\ agg.pc = "joined"
    /\ agg.out.tag = "ok"
    /\ ResolvedCount = 3
    /\ ResolvedSum % 3 # 0

\* C11: on success the price_date of an all-grades call is the latest of the
\* dates of the resolved grades: no resolved grade has a later date, and it
\* is the date of one of them, whichever grades resolved.
C11_DateIsLatestResolved ==
    (agg.pc = "joined" /\ agg.out.tag = "ok") =>
        /\ \A gc \in {"01", "02", "03"} :
                agg.results[gc].tag = "ok" =>
                    strptime(agg.results[gc].date).day <= strptime(agg.out.price_date).day
        /\ \E gc \in {"01", "02", "03"} :
                agg.results[gc].tag = "ok" /\ agg.results[gc].date = agg.out.price_date

\* C11 witness: the first grade failed, the other two resolved from rows whose
\* own dates differ
C11_Witness ==
    /\ agg.pc = "joined"
    /\ agg.out.tag = "ok"
    /\ agg.results["01"].tag # "ok"
    /\ agg.results["02"].price = 100
    /\ agg.results["03"].price = 1000

\* price and date of the row can be read
Comparable(item, target_day) ==
    /\ ItemPrice(item).t = "int" /\ ItemPrice(item).v > 0
    /\ item.regday.fmt # "none"
    /\ strptime(ParseRegday(item.regday, target_day)).ok

\* row a comes strictly before row b under (priority ascending, date
\* descending, price descending)
SortsBefore(a, b, target_day) ==
    LET da == strptime(ParseRegday(a.regday, target_day)).day
        db == strptime(ParseRegday(b.regday, target_day)).day
    IN  \/ ItemPriority(a) < ItemPriority(b)
        \/ ItemPriority(a) = ItemPriority(b) /\ da > db
        \/ ItemPriority(a) = ItemPriority(b) /\ da = db /\ ItemPrice(a).v > ItemPrice(b).v

\* C12 (as claimed): the row chosen by the selection is first among the rows
\* that pass the region filter under (priority ascending, date descending,
\* price descending): no eligible row sorts strictly before it, wherever the
\* rows stand in the response.
C12_SelectorOrder ==
    LET items == SelectionItems(pipe.resp)
    IN  (/\ pipe.pc = "current"
         /\ pipe.best # 0
         /\ \A i \in pipe.kept : Comparable(items[i], pipe.day - 1))
            => \A i \in pipe.kept :
                    ~SortsBefore(items[i], items[pipe.best], pipe.day - 1)

\* the rows of the response that the claim makes eligible
Eligible(region, item) ==
    CASE region = "jeonguk" -> item.countyname \in {"pyeonggyun", "pyeongnyeon", ""}
      [] region = "online" ->
            \E sub \in {"online", "auction"} : Contains(item.marketname, sub)
      [] OTHER ->
            item.countyname = region \/ item.countyname \in {"pyeonggyun", "pyeongnyeon", ""}

\* C13: of the rows the current-price selection reads, exactly these pass the
\* region filter: for the all-regions request the average/sentinel rows, for a
\* named region the rows of that region and the average/sentinel rows, for
\* the online request the rows whose market label contains an online-market
\* substring; the chosen row is one of them, and none is chosen only when
\* none passes.
C13_RegionFilter ==
    LET items == SelectionItems(pipe.resp)
    IN  (pipe.pc = "current" /\ pipe.out.tag \in {"ok", "none", "crash"}) =>
            /\ pipe.kept = {i \in 1..Len(items) : Eligible(pipe.region, items[i])}
            /\ pipe.best \in pipe.kept \cup {0}
            /\ pipe.best = 0 <=> pipe.kept = {}

\* C13 witness: a named region keeps an average row and drops another
\* region's row
C13_Witness ==
    LET items == SelectionItems(pipe.resp)
    IN  /\ pipe.pc = "current"
        /\ pipe.region = "seoul"
        /\ \E i \in pipe.kept : items[i].countyname = "pyeonggyun"
        /\ \E j \in 1..Len(items) : j \notin pipe.kept /\ items[j].countyname = "busan"

\* a price-history run on the response of one feed request whose series came back
HistoryOfOneResponse ==
    pipe.pc = "history" /\ pipe.resp # NoResponse /\ pipe.history.period = "ok"

\* the days for which the response of the run carries a known price
KnownDays ==
    {strptime(PeriodRegday(pipe.resp.items[i], pipe.day)).day :
        i \in {j \in 1..Len(pipe.resp.items) :
                PeriodValid(pipe.part_name, pipe.region, pipe.grade_code,
                            pipe.resp.items[j], pipe.day)}}

\* the price of the point of the daily series dated d, 0 when there is none
DailyPriceOn(d) ==
    LET daily == pipe.history.daily
        on == {k \in 1..Len(daily) : daily[k].date = strftime(d)}
    IN  IF on = {} THEN 0 ELSE daily[CHOOSE k \in on : TRUE].price

\* C14 (as claimed): every day the feed omits between two days with known
\* prices is in the daily series, with the price of the latest earlier known
\* day ([100, _, _, 130] becomes [100, 100, 100, 130]).
C14_ForwardFill ==
    HistoryOfOneResponse =>
        \A a \in KnownDays, b \in KnownDays :
            \A d \in (a + 1)..(b - 1) :
                d \notin KnownDays =>
                    LET prev == CHOOSE e \in KnownDays :
                                    e < d /\ \A f \in KnownDays : f < d => f <= e
                    IN  DailyPriceOn(d) # 0 /\ DailyPriceOn(d) = DailyPriceOn(prev)

\* C15 (as claimed): the weekly series returned for one part has at most
\* `weeks` points, for every weeks >= 1 and every response of the feed.
C15_AtMostWeeksPoints ==
    pipe.pc = "history" => Len(pipe.history.weekly) <= pipe.weeks

\* the Monday of the week of day d
MondayOf(d) == CHOOSE m \in (d - 6)..d : weekday(m) = 0

\* the points of the daily series of the run that count for the weekly series
CountedPoints ==
    {k \in 1..Len(pipe.history.daily) :
        /\ pipe.history.daily[k].price > 0
        /\ strptime(pipe.history.daily[k].date).day < pipe.day}

PointsOfWeek(m) ==
    {k \in CountedPoints : MondayOf(strptime(pipe.history.daily[k].date).day) = m}

ObservedMondays ==
    {MondayOf(strptime(pipe.history.daily[k].date).day) : k \in CountedPoints}

\* the weekly series has one point per observed week, ascending by week start
OnePointPerWeek ==
    LET weekly == pipe.history.weekly
        mondays == SortedDays(ObservedMondays)
    IN  /\ Len(weekly) = Len(mondays)
        /\ \A i \in 1..Len(weekly) :
            /\ weekly[i].week.from = mondays[i] % 365
            /\ weekly[i].price > 0
        /\ (Len(pipe.history.daily) = 14 /\ Cardinality(CountedPoints) = 14
                /\ Cardinality(ObservedMondays) = 2) => Len(weekly) = 2

\* C16 (as claimed): one point per Monday-to-Sunday week that holds a valid
\* daily price dated up to yesterday, none for a week without one, ascending
\* by week start, and the price of a point is the mean of its week's prices.
C16_WeeklyMean ==
    pipe.pc = "history" =>
        /\ OnePointPerWeek
        /\ \A i \in 1..Len(pipe.history.weekly) :
            LET ks == PointsOfWeek(SortedDays(ObservedMondays)[i])
            IN  pipe.history.weekly[i].price * Cardinality(ks)
                    = SumOfPoints(pipe.history.daily, ks)

\* C16 (amended): one point per Monday-to-Sunday week that holds a valid daily
\* price dated up to yesterday, none for a week without one (never a
\* zero-price point), ascending by week start, and the price of a point is
\* the mean of its week's prices with the fraction dropped; a 14-day series
\* over two weeks gives 2 points.
C16_WeeklyTruncatedMean ==
    pipe.pc = "history" =>
        /\ OnePointPerWeek
        /\ \A i \in 1..Len(pipe.history.weekly) :
            LET ks == PointsOfWeek(SortedDays(ObservedMondays)[i])
                p == pipe.history.weekly[i].price
            IN  /\ p * Cardinality(ks) <= SumOfPoints(pipe.history.daily, ks)
                /\ SumOfPoints(pipe.history.daily, ks) < (p + 1) * Cardinality(ks)

\* C16 witness: a 14-day series over two weeks whose weekly means are not whole
C16_Witness ==
    /\ pipe.pc = "history"
    /\ Len(pipe.history.daily) = 14
    /\ Len(pipe.history.weekly) = 2
    /\ \A i \in 1..2 :
        /\ Cardinality(PointsOfWeek(SortedDays(ObservedMondays)[i])) = 7
        /\ SumOfPoints(pipe.history.daily, PointsOfWeek(SortedDays(ObservedMondays)[i])) % 7 # 0

\* the year of a date string
YearOfDate(date) == YearOf(strptime(date).day)

\* C18 (as claimed): every point of the daily series of the period pipeline and
\* every successful current-price result has price > 0 and a date whose year is
\* within 2000..2100, and no row of the feed makes either pipeline raise.
C18_ValidAndNeverRaises ==
    /\ pipe.pc = "current" =>
          /\ pipe.out.tag # "crash"
          /\ pipe.out.tag = "ok" =>
                /\ pipe.out.price > 0
                /\ YearOfDate(pipe.out.date) \in 2000..2100
    /\ pipe.pc = "history" =>
          /\ pipe.history.period # "crash"
          /\ \A k \in 1..Len(pipe.history.daily) :
                /\ pipe.history.daily[k].price > 0
                /\ YearOfDate(pipe.history.daily[k].date) \in 2000..2100

\* a row dated MM/DD that comes with a yyyy field
HasSuppliedYear(item) == item.regday.fmt = "MM/DD" /\ item.yyyy # 0

\* the day MM/DD of the row falls on in the year of its yyyy field
DayInSuppliedYear(item) == (item.regday.day % 365) + 365 * (item.yyyy - 2025)

\* C19 (as claimed): a row dated MM/DD with a yyyy field is given the year
\* yyyy, not the year of the request day, by the current-price pipeline (the
\* date of its result) and by the period pipeline (the date of its point).
C19_YearIsSuppliedYear ==
    /\ (/\ pipe.pc = "current"
        /\ pipe.out.tag = "ok"
        /\ HasSuppliedYear(SelectionItems(pipe.resp)[pipe.best]))
            => YearOfDate(pipe.out.date) = SelectionItems(pipe.resp)[pipe.best].yyyy
    /\ HistoryOfOneResponse =>
          \A i \in 1..Len(pipe.resp.items) :
              LET item == pipe.resp.items[i]
              IN  (/\ HasSuppliedYear(item)
                   /\ PeriodFiltered(pipe.part_name, pipe.region, pipe.grade_code, item)
                   /\ period_price(item) > 0
                   /\ item.yyyy \in 2000..2100
                   /\ DayInSuppliedYear(item) <= pipe.day)
                      => \E k \in 1..Len(pipe.history.daily) :
                            pipe.history.daily[k].date = strftime(DayInSuppliedYear(item))

\* the run read a well-formed payload that carries a non-zero error code
ErrorCodePayload ==
    /\ pipe.resp.net = "ok"
    /\ parse_response(pipe.resp.body) = "dict"
    /\ pipe.resp.error_code \notin {"0", "000"}

\* C20 (as claimed): a well-formed payload with a non-zero error code makes the
\* pipeline fail with an error of its own, neither a result nor NotFound nor an
\* empty series, and no row of the payload is used.
C20_ErrorCodeFails ==
    ErrorCodePayload =>
        /\ pipe.pc = "current" => pipe.out.tag \notin {"ok", "none"}
        /\ pipe.pc = "history" =>
              /\ pipe.history.tag # "ok"
              /\ pipe.history.daily = <<>>

\* session s has just read back, through _get_from_db_cache, the key it saved
ReadBack(s) == sess[s].pc = "rt_read"

\* C17 (as claimed): for every key, price and date, _save_to_db followed at
\* once by _get_from_db_cache of the same key returns the price and the date
\* that were written.
C17_RoundTrip ==
    \A s \in Sessions :
        ReadBack(s) =>
            sess[s].cache_data =
                CacheHit(sess[s].api_data.currentPrice, sess[s].api_data.price_date)

\* the call of session s made one feed request and the body that came back
\* was an HTML page
GotHtmlPage(s) ==
    /\ Cardinality(FetchedGrades(sess[s].part_name, sess[s].grade_code)) = 1
    /\ sess[s].feed = "FeedFormatError"

UsableRow(item) ==
    /\ ItemPrice(item).t = "int"
    /\ ItemPrice(item).v > 0
    /\ item.regday.fmt # "none"

\* C22 (as claimed): when a row that passes the region filter has a usable
\* positive price and a date field, the current-price pipeline resolves a
\* price: rows with an unusable price are discarded before the selection and
\* are never the selected row.
C22_UsableRowResolves ==
    (/\ pipe.pc = "current"
     /\ \E i \in pipe.kept : UsableRow(SelectionItems(pipe.resp)[i]))
        => /\ pipe.out.tag = "ok"
           /\ UsableRow(SelectionItems(pipe.resp)[pipe.best])

\* the grades of the call that resolved, in the order of grade_codes_to_fetch
ResolvedInOrder == SelectSeq(grade_codes_to_fetch, LAMBDA gc : agg.results[gc].tag = "ok")

\* C23: the mean is computed only after the three sub-pipelines have finished,
\* and the price and the breakdown (content and order) are those of the
\* resolved grades taken in the order 01, 02, 03, whatever the order in which
\* the sub-pipelines completed.
C23_BarrierAndOrderFree ==
    agg.pc = "joined" =>
        /\ Len(agg.order) = Len(grade_codes_to_fetch)
        /\ \A gc \in {"01", "02", "03"} : agg.results[gc].tag # "pending"
        /\ agg.out.tag = "ok" =>
              /\ Len(agg.out.gradePrices) = Len(ResolvedInOrder)
              /\ \A i \in 1..Len(ResolvedInOrder) :
                    agg.out.gradePrices[i] =
                        GradePrice(grade_code_map(agg.part_name)[ResolvedInOrder[i]],
                                   agg.results[ResolvedInOrder[i]].price,
                                   agg.results[ResolvedInOrder[i]].date)
              /\ agg.out.currentPrice =
                    SumPrices(agg.out.gradePrices, 1) \div Len(ResolvedInOrder)

\* the sub-pipelines completed in another order than they were started, with
\* different prices, and the call succeeded
C23_Witness ==
    /\ agg.pc = "joined"
    /\ agg.order = <<"03", "01", "02">>
    /\ agg.out.tag = "ok"
    /\ Len(agg.out.gradePrices) = 3
    /\ agg.results["01"].price # agg.results["03"].price

\* the request of session s asks a domestic beef part with grade 00
AllGradesRequest(s) ==
    /\ StartsWith(sess[s].part_name, "Beef_")
    /\ ~StartsWith(sess[s].part_name, "Import_Beef_")
    /\ sess[s].grade_code = "00"

\* C24: a call for a domestic beef part with grade 00 never returns
\* source=cache and always calls the feed, and a call for a domestic beef part
\* that does return source=cache asked grade 01, 02 or 03 and returns the value
\* of a row stored under that grade, never the row an all-grades refresh wrote.
C24_AllGradesNeverCached ==
    \A s \in Sessions :
        Done(s) =>
            /\ AllGradesRequest(s) =>
                  /\ sess[s].result.source # "cache"
                  /\ sess[s].feed # "-"
            /\ (sess[s].result.source = "cache" /\ StartsWith(sess[s].part_name, "Beef_")) =>
                  /\ sess[s].grade_code \in {"01", "02", "03"}
                  /\ ReturnedRows(s) # {}

\* an all-grades call made while the row of an earlier all-grades refresh,
\* dated yesterday, is stored: it went to the feed again
C24_Witness ==
    /\ Done("s1")
    /\ AllGradesRequest("s1")
    /\ sess["s1"].db
    /\ sess["s1"].key_state = "fresh"
    /\ sess["s1"].result.source = "api"

\* the rows a call in progress has written and not yet committed
UncommittedRows == {r \in market_prices : r.owner # "committed" \/ r.upd_by # "-"}

\* C25: every row a call writes is dated the day before the day of the call,
\* a call that returns source=api reports that date, and no stored row is
\* dated today or later.
C25_RowsDatedYesterday ==
    /\ \A r \in UncommittedRows : r.price_date = today - 1
    /\ \A r \in market_prices : r.price_date < today
    /\ \A s \in Sessions :
          (Done(s) /\ sess[s].result.source = "api")
              => sess[s].result.price_date = strftime(today - 1)

\* a call made on a later day than the date of the row the feed sent has
\* written its row
C25_Witness ==
    /\ today >= 3
    /\ Done("s1")
    /\ sess["s1"].wrote
    /\ sess["s1"].result.source = "api"
    /\ \E r \in UncommittedRows : r.price_date = today - 1

\* the row passes every test of the period pipeline but the region filter
ValidButForRegion(item) ==
    LET parsed == strptime(PeriodRegday(item, pipe.day))
    IN  /\ RankKeeps(pipe.part_name, pipe.grade_code,
                     product_rank_code_of(pipe.part_name, pipe.grade_code), item)
        /\ period_price(item) > 0
        /\ item.regday.fmt # "none"
        /\ parsed.ok
        /\ parsed.day <= pipe.day
        /\ YearOf(parsed.day) \in 2000..2100

\* C26 (as claimed): a row of the feed counts for the daily series of
\* fetch_kamis_price_period exactly when the region filter of
\* _fetch_kamis_price_single keeps it (all regions: average rows only; a named
\* region: its rows, or average rows as fallback), and then the series has a
\* point on the row's date.
C26_SameRegionFilter ==
    HistoryOfOneResponse =>
        \A i \in 1..Len(pipe.resp.items) :
            LET item == pipe.resp.items[i]
            IN  ValidButForRegion(item) =>
                    /\ PeriodValid(pipe.part_name, pipe.region, pipe.grade_code, item,
                                   pipe.day)
                        <=> RegionKeeps(pipe.region, item)
                    /\ RegionKeeps(pipe.region, item) =>
                            \E k \in 1..Len(pipe.history.daily) :
                                pipe.history.daily[k].date = PeriodRegday(item, pipe.day)

\* the run is an all-grades price history of a domestic beef part
AllGradesHistory ==
    /\ pipe.pc = "history"
    /\ StartsWith(pipe.part_name, "Beef_")
    /\ pipe.grade_code = "00"

\* the daily series of the period fetch of grade gc of the run, empty when the
\* fetch failed
GradeSeries(gc) ==
    LET r == fetch_kamis_price_period_single(pipe.part_name, pipe.region, gc, pipe.day,
                                             pipe.resps[gc])
    IN  IF r.tag = "ok" THEN r.daily ELSE <<>>

\* C27 (as claimed): in an all-grades period fetch a grade whose fetch fails is
\* left out, each date is priced with the mean over the grades that have a
\* point on it, and the call fails only when no grade resolves.
C27_FailedGradeOmitted ==
    AllGradesHistory =>
        LET series == <<GradeSeries("01"), GradeSeries("02"), GradeSeries("03")>>
        IN  (\E i \in 1..3 : series[i] # <<>>) =>
                /\ pipe.history.tag = "ok"
                /\ pipe.history.period = "ok"
                /\ pipe.history.daily = merge_grades(series)

\* the number of the first candidate field of the row, from field i on, that
\* holds a usable positive number; 0 when no field does
RECURSIVE FirstUsablePrice(_, _)
FirstUsablePrice(item, i) ==
    IF i > Len(PriceFields) THEN 0
    ELSE LET pv == int_float(ItemGet(item, PriceFields[i]))
         IN  IF Truthy(ItemGet(item, PriceFields[i])) /\ pv.t = "int" /\ pv.v > 0
             THEN pv.v
             ELSE FirstUsablePrice(item, i + 1)

\* C28 (as claimed): the candidate price fields are tried in their fixed order
\* until one yields a usable positive number, so a row whose first present
\* field is unusable and whose later field holds a valid number is priced from
\* the later field, in the current-price pipeline (the selected row) as in the
\* period pipeline (every row that passes the filters).
C28_FirstUsableField ==
    /\ (/\ pipe.pc = "current"
        /\ pipe.best # 0
        /\ pipe.out.tag # "crash"
        /\ SelectionItems(pipe.resp)[pipe.best].regday.fmt # "none"
        /\ FirstUsablePrice(SelectionItems(pipe.resp)[pipe.best], 1) > 0)
            => /\ pipe.out.tag = "ok"
               /\ pipe.out.price = FirstUsablePrice(SelectionItems(pipe.resp)[pipe.best], 1)
    /\ HistoryOfOneResponse =>
          \A i \in 1..Len(pipe.resp.items) :
              LET item == pipe.resp.items[i]
                  parsed == strptime(PeriodRegday(item, pipe.day))
              IN  (/\ PeriodFiltered(pipe.part_name, pipe.region, pipe.grade_code, item)
                   /\ FirstUsablePrice(item, 1) > 0
                   /\ parsed.ok
                   /\ parsed.day <= pipe.day
                   /\ YearOf(parsed.day) \in 2000..2100)
                      => \E k \in 1..Len(pipe.history.daily) :
                            pipe.history.daily[k].date = PeriodRegday(item, pipe.day)

\* C29 (as claimed): the daily series fetch_kamis_price_period returns has no
\* point dated after the as-of date of the feed, yesterday of the request day:
\* no point is dated today or later.
C29_NoPointAfterYesterday ==
    (pipe.pc = "history" /\ pipe.history.period = "ok") =>
        \A k \in 1..Len(pipe.history.daily) :
            strptime(pipe.history.daily[k].date).day <= pipe.day - 1

\* C30: a call that returns source=cache returns the price and the date of a
\* row stored with its own part_name, its own region and the storage grade of
\* its request; a domestic beef request is served only for grade 01, 02 or 03,
\* and never with the row of another grade or of the all-grades mean.
C30_CacheIsolation ==
    \A s \in Sessions :
        (Done(s) /\ sess[s].result.source = "cache") =>
            /\ CacheConsulted(s)
            /\ \E r \in Visible(market_prices, s) :
                  /\ r.part_name = sess[s].part_name
                  /\ r.region = sess[s].region
                  /\ r.grade_code =
                        normalize_grade_for_storage(sess[s].part_name, sess[s].grade_code)
                  /\ r.current_price = sess[s].result.currentPrice
                  /\ strftime(r.price_date) = sess[s].result.price_date

\* a call was served from the cache while a row of the same part and grade,
\* with another price, is stored for another region
C30_Witness ==
    /\ Done("s1")
    /\ sess["s1"].result.source = "cache"
    /\ \E r \in market_prices :
          /\ r.part_name = sess["s1"].part_name
          /\ r.grade_code =
                normalize_grade_for_storage(sess["s1"].part_name, sess["s1"].grade_code)
          /\ r.region # sess["s1"].region
          /\ r.current_price # sess["s1"].result.currentPrice

====
